---- MODULE Spec2Model ----
(***************************************************************************)
(* Model of the measurement post-processing pipeline of                    *)
(* RIKEN-natsu-intern: StimErrorSimulator.measurement_mapper               *)
(* (src/src/simulator.py), chunk_list (src/src/helper.py),                 *)
(* arranging_good_stuff (src/src/good_stuff.py) and bitstreamer            *)
(* (src/src/bitstreamer.py).                                               *)
(*                                                                         *)
(* Every function is a pure batch transform, so each one is an action that *)
(* takes the inputs held in the state and stores the function's outcome    *)
(* (its return value, or the exception it raises).  There is one           *)
(* specification per function; its Init draws the inputs from bounded sets.*)
(***************************************************************************)
EXTENDS Integers, Sequences, FiniteSets, TLC

VARIABLES
    pc,                 \* which call is pending / has returned
    distance,           \* StimErrorSimulator.distance
    rounds,             \* StimErrorSimulator.rounds, or the rounds argument
    ec_circuit,         \* StimErrorSimulator.ec_circuit: sequence of instructions
    logging,            \* measurement_mapper's logging flag
    measurements_out,   \* measurement_mapper's batch of shot vectors
    mapper_out,         \* outcome of measurement_mapper
    mapped_measurements,\* packing_good_stuff's input: one list of labeled tuples per shot
    coordinates,        \* packing_good_stuff's coordinate dict: qubit -> (x, y)
    packed_out,         \* outcome of packing_good_stuff (src/good_stuff.py)
    helper_packed_out,  \* outcome of packing_good_stuff of src/helper.py
    packed_stuff,       \* arranging_good_stuff's input: one list of packed entries per shot
    arranged_out,       \* outcome of arranging_good_stuff
    mapped_ordered,     \* bitstreamer's input dict, as (key, shot) items in insertion order
    fmt,                \* bitstreamer's format string, as a sequence of characters
    bitstream_out       \* outcome of bitstreamer

vars == <<pc, distance, rounds, ec_circuit, logging, measurements_out, mapper_out,
          mapped_measurements, coordinates, packed_out, helper_packed_out,
          packed_stuff, arranged_out, mapped_ordered, fmt, bitstream_out>>

(***************************************************************************)
(* Bounds                                                                  *)
(***************************************************************************)
MaxInstr == 3       \* instructions in a circuit
MaxRounds == 2      \* rounds
MaxShots == 2       \* shot vectors in a measurement_mapper batch
MaxEntries == 5     \* packed entries in one shot given to arranging_good_stuff
MaxArrShots == 2    \* shots in a batch given to arranging_good_stuff
MaxBsShots == 11    \* shots in the dict given to bitstreamer
MaxBsRounds == 2    \* RoundRecords per ancilla section given to bitstreamer
MaxBsQubits == 2    \* entries per ord_qubits list given to bitstreamer
MaxFmtLen == 2      \* characters in a format string (the default format apart)
MaxLabels == 4      \* labeled tuples in one shot given to packing_good_stuff
MaxPackShots == 2   \* shots in a batch given to packing_good_stuff

(***************************************************************************)
(* Python built-ins used by the code                                       *)
(***************************************************************************)
Min2(a, b) == IF a <= b THEN a ELSE b

\* lst[start:end] for 0 <= start, 0 <= end (0-based, end exclusive, clamped)
PySlice(lst, start, end) == SubSeq(lst, start + 1, Min2(end, Len(lst)))

SetMin(S) == CHOOSE x \in S : \A y \in S : x <= y

RECURSIVE SortedInts(_)
\* sorted(S) for a set of integers
SortedInts(S) == IF S = {} THEN <<>>
                 ELSE LET x == SetMin(S) IN <<x>> \o SortedInts(S \ {x})

\* set(lst)
SeqToSet(lst) == {lst[i] : i \in 1..Len(lst)}

\* name.startswith(prefix)
StartsWith(name, prefix) ==
    /\ Len(name) >= Len(prefix)
    /\ SubSeq(name, 1, Len(prefix)) = prefix

(***************************************************************************)
(* helper.chunk_list                                                       *)
(***************************************************************************)
RECURSIVE ChunkLoop(_, _, _, _, _)
\* the "for _ in range(repeat)" loop: returns the chunks and the final start
ChunkLoop(lst, chunk_size, n, start, chunks) ==
    IF n <= 0 THEN [chunks |-> chunks, start |-> start]
    ELSE ChunkLoop(lst, chunk_size, n - 1, start + chunk_size,
                   Append(chunks, PySlice(lst, start, start + chunk_size)))

chunk_list(lst, chunk_size, repeat) ==
    LET loop == ChunkLoop(lst, chunk_size, repeat, 0, <<>>)
    IN  IF loop.start < Len(lst)
        THEN Append(loop.chunks, PySlice(lst, loop.start, Len(lst)))
        ELSE loop.chunks

(***************************************************************************)
(* StimErrorSimulator.measurement_mapper                                   *)
(***************************************************************************)
H_NAME == <<"H">>
MR_NAME == <<"M", "R">>
M_PREFIX == <<"M">>

\* expected_len = r * ((d**2 - 1)) + d**2
expected_len(d, r) == r * ((d * d) - 1) + (d * d)

\* (variant: the "Case 2" branch is active and the instructions of a repeat
\* block's body are classified like top-level ones)
ScanInstruction_descend(inst, acc) ==
    LET one(sub, a) ==
            LET targets == SeqToSet(sub.targets)
            IN  IF sub.name = H_NAME
                THEN [a EXCEPT !.h_qubits = @ \cup targets]
                ELSE IF sub.name = MR_NAME
                THEN [a EXCEPT !.mr_qubits = @ \cup targets]
                ELSE IF StartsWith(sub.name, M_PREFIX)
                THEN [a EXCEPT !.m_qubits = @ \cup targets]
                ELSE a
        body[i \in 0..Len(inst.body)] ==
            IF i = 0 THEN acc ELSE one(inst.body[i], body[i - 1])
    IN  IF inst.has_targets_copy THEN one(inst, acc) ELSE body[Len(inst.body)]

\* One iteration of "for inst in circuit": the three accumulating sets.
ScanInstruction(inst, acc) ==
    IF inst.has_targets_copy
    THEN LET targets == SeqToSet(inst.targets)
         IN  IF inst.name = H_NAME
             THEN [acc EXCEPT !.h_qubits = @ \cup targets]
             ELSE IF inst.name = MR_NAME
             THEN [acc EXCEPT !.mr_qubits = @ \cup targets]
             ELSE IF StartsWith(inst.name, M_PREFIX)
             THEN [acc EXCEPT !.m_qubits = @ \cup targets]
             ELSE acc
    ELSE acc    \* repeat block: the "Case 2" branch is commented out

RECURSIVE ScanLoop(_, _, _)
ScanLoop(circuit, i, acc) ==
    IF i > Len(circuit) THEN acc
    ELSE ScanLoop(circuit, i + 1, ScanInstruction(circuit[i], acc))

\* h_qubits, mr_qubits, m_qubits after the scan
ScanCircuit(circuit) ==
    ScanLoop(circuit, 1, [h_qubits |-> {}, mr_qubits |-> {}, m_qubits |-> {}])

\* for i in zip(item, mr_qubits): label ancx / ancz
ZipAncilla(item, mr_list, h_list) ==
    [k \in 1..Min2(Len(item), Len(mr_list)) |->
        <<item[k], mr_list[k],
          IF mr_list[k] \in SeqToSet(h_list) THEN "ancx" ELSE "ancz">>]

\* for i in zip(final_measurements, m_qubits): label data
ZipData(final_measurements, m_list) ==
    [k \in 1..Min2(Len(final_measurements), Len(m_list)) |->
        <<final_measurements[k], m_list[k], "data">>]

RECURSIVE AncillaLoop(_, _, _, _)
\* for item in intermediate_measurements: ...
AncillaLoop(intermediate, i, mr_list, h_list) ==
    IF i > Len(intermediate) THEN <<>>
    ELSE ZipAncilla(intermediate[i], mr_list, h_list)
            \o AncillaLoop(intermediate, i + 1, mr_list, h_list)

\* Body of "for each_measurement in measurements_out" with the sorted lists.
MapShot(each_measurement, r, mr_list, h_list, m_list) ==
    LET chunked == chunk_list(each_measurement, Len(mr_list), r)
        intermediate_measurements == PySlice(chunked, 0, r)
        final_measurements == chunked[Len(chunked)]
    IN  AncillaLoop(intermediate_measurements, 1, mr_list, h_list)
            \o ZipData(final_measurements, m_list)

NoMeta == [m_qubits |-> <<>>, mr_qubits |-> <<>>, h_qubits |-> <<>>, mr_only |-> <<>>]

\* The metadata dict; each "count" is len() of the "values" list beside it.
Metadata(sets) ==
    [m_qubits |-> SortedInts(sets.m_qubits),
     mr_qubits |-> SortedInts(sets.mr_qubits),
     h_qubits |-> SortedInts(sets.h_qubits),
     mr_only |-> SortedInts(sets.mr_qubits \ sets.h_qubits)]

\* Outcome of measurement_mapper(measurements_out, logging) on a simulator
\* with the given distance, rounds and circuit.
\*  - the length check raises RuntimeError;
\*  - mr_only is assigned only inside "if logging:", so with logging false
\*    building the metadata dict raises UnboundLocalError.  The shot loop
\*    before it has no effect visible outside the call.
measurement_mapper(d, r, circuit, batch, log) ==
    LET lengths == {Len(batch[i]) : i \in 1..Len(batch)}
        sets == ScanCircuit(circuit)
        meta == Metadata(sets)
    IN  IF lengths # {expected_len(d, r)}
        THEN [status |-> "RuntimeError", mapped |-> <<>>, meta |-> NoMeta]
        ELSE IF ~log
        THEN [status |-> "UnboundLocalError", mapped |-> <<>>, meta |-> NoMeta]
        ELSE [status |-> "ok",
              mapped |-> [i \in 1..Len(batch) |->
                            MapShot(batch[i], r, meta.mr_qubits, meta.h_qubits,
                                    meta.m_qubits)],
              meta |-> meta]

(***************************************************************************)
(* Python strings: ordering by code point, str(int)                        *)
(***************************************************************************)
\* ord(c) for the characters that occur in the keys "shot <n>"
CharCode(c) ==
    CASE c = " " -> 32
      [] c = "0" -> 48 [] c = "1" -> 49 [] c = "2" -> 50 [] c = "3" -> 51
      [] c = "4" -> 52 [] c = "5" -> 53 [] c = "6" -> 54 [] c = "7" -> 55
      [] c = "8" -> 56 [] c = "9" -> 57
      [] c = "h" -> 104 [] c = "o" -> 111 [] c = "s" -> 115 [] c = "t" -> 116

DigitChar(n) ==
    CASE n = 0 -> "0" [] n = 1 -> "1" [] n = 2 -> "2" [] n = 3 -> "3" [] n = 4 -> "4"
      [] n = 5 -> "5" [] n = 6 -> "6" [] n = 7 -> "7" [] n = 8 -> "8" [] n = 9 -> "9"

RECURSIVE IntToStr(_)
\* str(n) for n >= 0, one character per element
IntToStr(n) == IF n < 10 THEN <<DigitChar(n)>>
               ELSE Append(IntToStr(n \div 10), DigitChar(n % 10))

RECURSIVE StrLess(_, _)
\* a < b for Python strings (lexicographic by code point)
StrLess(a, b) ==
    IF a = <<>> THEN b # <<>>
    ELSE IF b = <<>> THEN FALSE
    ELSE IF CharCode(Head(a)) # CharCode(Head(b))
         THEN CharCode(Head(a)) < CharCode(Head(b))
    ELSE StrLess(Tail(a), Tail(b))

RECURSIVE SortedStrs(_)
\* sorted(S) for a set of strings
SortedStrs(S) ==
    IF S = {} THEN <<>>
    ELSE LET x == CHOOSE a \in S : \A b \in S \ {a} : StrLess(a, b)
         IN  <<x>> \o SortedStrs(S \ {x})

(***************************************************************************)
(* good_stuff.packing_good_stuff                                           *)
(***************************************************************************)
\* tem_dict for one labeled tuple item = (value, qubit, type)
PackItem(item, coords_map) ==
    [qubit |-> item[2], value |-> item[1], type |-> item[3],
     coords |-> coords_map[item[2]]]

\* (variant: tem_dict is inserted at the front of packed_per_sample)
PackSample_reversed(measurement, coords_map) ==
    IF \E k \in 1..Len(measurement) : measurement[k][2] \notin DOMAIN coords_map
    THEN [raised |-> TRUE, value |-> <<>>]
    ELSE [raised |-> FALSE,
          value |-> [k \in 1..Len(measurement) |->
                        PackItem(measurement[Len(measurement) + 1 - k], coords_map)]]

\* (variant: coordinates.get(qubit) and a tuple without coordinates is skipped)
PackSample_skip(measurement, coords_map) ==
    LET known == SelectSeq(measurement, LAMBDA item : item[2] \in DOMAIN coords_map)
    IN  [raised |-> FALSE,
         value |-> [k \in 1..Len(known) |-> PackItem(known[k], coords_map)]]

\* The inner loop "for item in measurement": coordinates[qubit] raises
\* KeyError for a qubit that is not a key of the dict.
PackSample(measurement, coords_map) ==
    IF \E k \in 1..Len(measurement) : measurement[k][2] \notin DOMAIN coords_map
    THEN [raised |-> TRUE, value |-> <<>>]
    ELSE [raised |-> FALSE,
          value |-> [k \in 1..Len(measurement) |-> PackItem(measurement[k], coords_map)]]

RECURSIVE PackLoop_shared(_, _, _, _)
\* (variant: packed_per_sample is created once, before the outer loop, and
\* keeps the entries of the earlier shots)
PackLoop_shared(mapped, coords_map, n, packed_stuff_big) ==
    IF n > Len(mapped) THEN [status |-> "ok", packed |-> packed_stuff_big]
    ELSE LET one == PackSample(mapped[n], coords_map)
             earlier == IF packed_stuff_big = <<>> THEN <<>>
                        ELSE packed_stuff_big[Len(packed_stuff_big)]
         IN  IF one.raised
             THEN [status |-> "KeyError", packed |-> <<>>]
             ELSE PackLoop_shared(mapped, coords_map, n + 1,
                                  Append(packed_stuff_big, earlier \o one.value))

RECURSIVE PackLoop(_, _, _, _)
\* The outer loop "for measurement in mapped_measurements"; packed_per_sample
\* is a new list in every iteration.
PackLoop(mapped, coords_map, n, packed_stuff_big) ==
    IF n > Len(mapped) THEN [status |-> "ok", packed |-> packed_stuff_big]
    ELSE LET one == PackSample(mapped[n], coords_map)
         IN  IF one.raised
             THEN [status |-> "KeyError", packed |-> <<>>]
             ELSE PackLoop(mapped, coords_map, n + 1, Append(packed_stuff_big, one.value))

packing_good_stuff(mapped, coords_map) == PackLoop(mapped, coords_map, 1, <<>>)

(***************************************************************************)
(* helper.packing_good_stuff                                               *)
(***************************************************************************)
RECURSIVE HelperPackLoop(_, _, _, _)
\* The outer loop of the helper.py version: packed_per_sample is created
\* once, before the loop, and the same list object is appended to
\* packed_stuff_big in every iteration.  The loop state is the list's
\* contents; every element of the result is that one list.
HelperPackLoop(mapped, coords_map, n, packed_per_sample) ==
    IF n > Len(mapped)
    THEN [status |-> "ok", packed |-> [i \in 1..Len(mapped) |-> packed_per_sample]]
    ELSE LET one == PackSample(mapped[n], coords_map)
         IN  IF one.raised
             THEN [status |-> "KeyError", packed |-> <<>>]
             ELSE HelperPackLoop(mapped, coords_map, n + 1,
                                 packed_per_sample \o one.value)

helper_packing_good_stuff(mapped, coords_map) == HelperPackLoop(mapped, coords_map, 1, <<>>)

(***************************************************************************)
(* good_stuff.arranging_good_stuff                                         *)
(***************************************************************************)
\* [q for q in item_per_shot if q["type"] == t]
FilterType(item_per_shot, t) ==
    SelectSeq(item_per_shot, LAMBDA q : q.type = t)

\* (variant: the key is (q["coords"][1], q["coords"][0]), y before x)
CoordsKeyLess_yx(a, b) ==
    \/ a.coords[2] < b.coords[2]
    \/ a.coords[2] = b.coords[2] /\ a.coords[1] < b.coords[1]

\* key=lambda q: (q["coords"][0], q["coords"][1]); tuples compare lexicographically
CoordsKeyLess(a, b) ==
    \/ a.coords[1] < b.coords[1]
    \/ a.coords[1] = b.coords[1] /\ a.coords[2] < b.coords[2]

\* Insert q behind every element whose key is not greater than q's key.
InsertByCoords(lst, q) ==
    LET after == {i \in 1..Len(lst) : CoordsKeyLess(q, lst[i])}
        pos == IF after = {} THEN Len(lst) + 1 ELSE SetMin(after)
    IN  SubSeq(lst, 1, pos - 1) \o <<q>> \o SubSeq(lst, pos, Len(lst))

RECURSIVE SortedByCoords(_)
\* sorted(lst, key=...): Python's sort is stable
SortedByCoords(lst) ==
    IF lst = <<>> THEN <<>>
    ELSE InsertByCoords(SortedByCoords(SubSeq(lst, 1, Len(lst) - 1)), lst[Len(lst)])

\* list(range(0, stop, step)) for step > 0
RangeStarts(stop, step) ==
    [r \in 1..((stop + step - 1) \div step) |-> (r - 1) * step]

\* The list comprehension that groups one ancilla role by round;
\* range() raises ValueError when its step num_per_round is zero.
GroupByRound(anc_list, num_per_round) ==
    IF num_per_round = 0
    THEN [raised |-> TRUE, value |-> <<>>]
    ELSE [raised |-> FALSE,
          value |-> LET starts == RangeStarts(Len(anc_list), num_per_round)
                    IN  [r \in 1..Len(starts) |->
                           [round |-> r,
                            ord_qubits |->
                               SortedByCoords(PySlice(anc_list, starts[r],
                                                      starts[r] + num_per_round))]]]

\* Body of "for item_per_shot in packed_stuff"
ArrangeShot(item_per_shot, r) ==
    LET x_anc_list == FilterType(item_per_shot, "ancx")
        z_anc_list == FilterType(item_per_shot, "ancz")
        data_list == FilterType(item_per_shot, "data")
        num_per_round_x == Len(x_anc_list) \div r
        num_per_round_z == Len(z_anc_list) \div r
        x_anc_grouped_by_round == GroupByRound(x_anc_list, num_per_round_x)
        z_anc_grouped_by_round == GroupByRound(z_anc_list, num_per_round_z)
        data_sorted == [ord_qubits |-> SortedByCoords(data_list)]
    IN  IF x_anc_grouped_by_round.raised \/ z_anc_grouped_by_round.raised
        THEN [raised |-> TRUE, value |-> <<>>]
        ELSE [raised |-> FALSE,
              value |-> [ancx |-> x_anc_grouped_by_round.value,
                         ancz |-> z_anc_grouped_by_round.value,
                         data |-> data_sorted]]

\* f"shot {shots}"
ShotKey(shots) == <<"s", "h", "o", "t", " ">> \o IntToStr(shots)

RECURSIVE ArrangeLoop(_, _, _, _)
\* The shot loop: BIG_SORTED_RESULTS as (key, value) items in insertion
\* order; an exception in any shot ends the call without a result.
ArrangeLoop(packed, r, shots, results) ==
    IF shots > Len(packed) THEN [status |-> "ok", result |-> results]
    ELSE LET one == ArrangeShot(packed[shots], r)
         IN  IF one.raised
             THEN [status |-> "ValueError", result |-> <<>>]
             ELSE ArrangeLoop(packed, r, shots + 1,
                              Append(results, [key |-> ShotKey(shots), shot |-> one.value]))

arranging_good_stuff(packed, r) == ArrangeLoop(packed, r, 1, <<>>)

(***************************************************************************)
(* bitstreamer.bitstreamer                                                 *)
(***************************************************************************)
\* fmt_map = {"x": "ancx", "z": "ancz", "d": "data"}
FmtMapKeys == {"x", "z", "d"}
\* (variant: the x and z entries of fmt_map exchanged)
FmtMap_swapped(f) == CASE f = "x" -> "ancz" [] f = "z" -> "ancx" [] f = "d" -> "data"

FmtMap(f) == CASE f = "x" -> "ancx" [] f = "z" -> "ancz" [] f = "d" -> "data"

RECURSIVE FirstInvalidChar_last(_)
\* (variant: the loop collects the invalid characters and reports the last)
FirstInvalidChar_last(f_str) ==
    IF f_str = <<>> THEN ""
    ELSE IF FirstInvalidChar_last(Tail(f_str)) # "" THEN FirstInvalidChar_last(Tail(f_str))
    ELSE IF Head(f_str) \notin {"x", "z", "d"} THEN Head(f_str)
    ELSE ""

RECURSIVE FirstInvalidChar(_)
\* The validation loop: the character it raises ValueError for, or "" when
\* every character of fmt is a key of fmt_map.
FirstInvalidChar(f_str) ==
    IF f_str = <<>> THEN ""
    ELSE IF Head(f_str) \notin FmtMapKeys THEN Head(f_str)
    ELSE FirstInvalidChar(Tail(f_str))

\* mapped_ordered.keys() and mapped_ordered[shot_name] on the item list
DictKeys(items) == {items[i].key : i \in 1..Len(items)}
DictGet(items, key) == items[CHOOSE i \in 1..Len(items) : items[i].key = key].shot

\* "1" if q["value"] else "0", for every q of ord_qubits
QubitBits(ord_qubits) ==
    [p \in 1..Len(ord_qubits) |-> IF ord_qubits[p].value THEN "1" ELSE "0"]

RECURSIVE RoundBits(_, _)
\* for round_data in shot[key]: for q in round_data["ord_qubits"]: ...
RoundBits(round_list, r) ==
    IF r > Len(round_list) THEN <<>>
    ELSE QubitBits(round_list[r].ord_qubits) \o RoundBits(round_list, r + 1)

\* One iteration of "for f in fmt" for one shot
SectionBits(shot, f) ==
    LET key == FmtMap(f)
    IN  IF key \notin DOMAIN shot THEN <<>>          \* continue
        ELSE IF key = "data" THEN QubitBits(shot[key].ord_qubits)
        ELSE RoundBits(shot[key], 1)

RECURSIVE FormatBits_break(_, _, _)
\* (variant: a missing section key ends the format loop of the shot,
\* "break" in place of "continue")
FormatBits_break(shot, f_str, i) ==
    IF i > Len(f_str) THEN <<>>
    ELSE IF FmtMap(f_str[i]) \notin DOMAIN shot THEN <<>>
    ELSE SectionBits(shot, f_str[i]) \o FormatBits_break(shot, f_str, i + 1)

RECURSIVE FormatBits(_, _, _)
FormatBits(shot, f_str, i) ==
    IF i > Len(f_str) THEN <<>>
    ELSE SectionBits(shot, f_str[i]) \o FormatBits(shot, f_str, i + 1)

RECURSIVE ShotLoopBits(_, _, _, _)
\* for shot_name in sorted(mapped_ordered.keys()): ...
ShotLoopBits(items, names, f_str, n) ==
    IF n > Len(names) THEN <<>>
    ELSE FormatBits(DictGet(items, names[n]), f_str, 1)
            \o ShotLoopBits(items, names, f_str, n + 1)

bitstreamer(items, f_str) ==
    LET bad == FirstInvalidChar(f_str)
    IN  IF bad # ""
        THEN [status |-> "ValueError", char |-> bad, bitstream |-> <<>>]
        ELSE [status |-> "ok", char |-> "",
              bitstream |-> ShotLoopBits(items, SortedStrs(DictKeys(items)), f_str, 1)]

(***************************************************************************)
(* Inputs of measurement_mapper                                            *)
(***************************************************************************)
Instr(name, targets) ==
    [has_targets_copy |-> TRUE, name |-> name, targets |-> targets, body |-> <<>>]

\* A stim.CircuitRepeatBlock: it has a body and no targets_copy.
RepeatBlock(body) ==
    [has_targets_copy |-> FALSE, name |-> <<"R", "E", "P", "E", "A", "T">>,
     targets |-> <<>>, body |-> body]

\* Qubit numbering of the distance-3 rotated surface code and of the
\* distance-3 repetition code, as stim generates them.
XAncillas == <<2, 11, 16, 25>>
Ancillas == <<2, 9, 11, 13, 14, 16, 18, 25>>
DataQubits == <<1, 3, 5, 8, 10, 12, 15, 17, 19>>
\* Qubits 0..16 of a circuit that measures and resets as many qubits as a
\* distance-3 shot vector has values at rounds = 1
WideReset == [q \in 1..17 |-> q - 1]

InstrPool ==
    { Instr(<<"H">>, XAncillas),
      Instr(<<"M", "R">>, Ancillas),
      Instr(<<"M">>, DataQubits),
      Instr(<<"M", "R">>, <<1, 3>>),
      Instr(<<"M", "R">>, WideReset),
      Instr(<<"M", "X">>, <<0, 2, 4>>),
      Instr(<<"C", "X">>, <<0, 1, 2, 3>>),
      RepeatBlock(<<Instr(<<"H">>, <<20>>), Instr(<<"M", "R">>, <<20, 21>>),
                    Instr(<<"M">>, <<22>>)>>) }

\* A top-level measurement instruction (M, MX, MR, ...)
IsMeasurement(inst) == inst.has_targets_copy /\ StartsWith(inst.name, <<"M">>)

\* Circuits as stim generates them: they measure some qubit at the top
\* level.  No instruction of the pool occurs twice: a second occurrence adds
\* nothing to the sets the scan accumulates.
Circuits ==
    UNION {{c \in [1..n -> InstrPool] :
                /\ \A i, j \in 1..n : c[i] = c[j] => i = j
                /\ \E i \in 1..n : IsMeasurement(c[i])} :
           n \in 1..MaxInstr}

Distances == {3}
Rounds == 1..MaxRounds

\* Positions that are TRUE in the sample vectors (not periodic, so that a
\* shifted or re-chunked vector differs from the original).
TruePositions == {0, 1, 4, 9, 16, 25, 36, 49}

\* Shot vector number i of a batch: length len, contents fixed by i.
ShotVector(len, i) ==
    [k \in 1..len |-> (k - 1 + i) \in TruePositions]

\* The length rounds * |measureReset| + |measured - measureReset| of the spec.
RoleLen(circuit, r) ==
    LET sets == ScanCircuit(circuit)
    IN  r * Cardinality(sets.mr_qubits)
          + Cardinality(sets.m_qubits \ sets.mr_qubits)

\* Lengths a shot vector is given: the one the code expects, one less, and
\* the one the role sets of the circuit predict.
VectorLengths(d, r, circuit) ==
    {expected_len(d, r), expected_len(d, r) - 1, RoleLen(circuit, r)}

Batches(d, r, circuit) ==
    UNION {{[i \in 1..n |-> ShotVector(lens[i], i)] :
                lens \in [1..n -> VectorLengths(d, r, circuit)]} :
           n \in 0..MaxShots}

(***************************************************************************)
(* Values of the variables a specification does not use                    *)
(***************************************************************************)
NoMapperOut == [status |-> "none", mapped |-> <<>>, meta |-> NoMeta]

MapperIdle ==
    /\ distance = 0
    /\ ec_circuit = <<>>
    /\ logging = FALSE
    /\ measurements_out = <<>>
    /\ mapper_out = NoMapperOut

NoPacked == [status |-> "none", packed |-> <<>>]

PackIdle ==
    /\ mapped_measurements = <<>>
    /\ coordinates = <<>>
    /\ packed_out = NoPacked
    /\ helper_packed_out = NoPacked

ArrangeIdle ==
    /\ packed_stuff = <<>>
    /\ arranged_out = [status |-> "none", result |-> <<>>]

BitstreamIdle ==
    /\ mapped_ordered = <<>>
    /\ fmt = <<>>
    /\ bitstream_out = [status |-> "none", char |-> "", bitstream |-> <<>>]

(***************************************************************************)
(* Specification of measurement_mapper                                     *)
(***************************************************************************)
InitMapper ==
    /\ pc = "mapper_call"
    /\ distance \in Distances
    /\ rounds \in Rounds
    /\ ec_circuit \in Circuits
    /\ logging \in BOOLEAN
    /\ measurements_out \in Batches(distance, rounds, ec_circuit)
    /\ mapper_out = NoMapperOut
    /\ PackIdle
    /\ ArrangeIdle
    /\ BitstreamIdle

\* sim.measurement_mapper(measurements_out, logging)
MeasurementMapper ==
    /\ pc = "mapper_call"
    /\ mapper_out' = measurement_mapper(distance, rounds, ec_circuit,
                                        measurements_out, logging)
    /\ pc' = "mapper_done"
    /\ UNCHANGED <<helper_packed_out, distance, rounds, ec_circuit, logging, measurements_out,
                   mapped_measurements, coordinates, packed_out,
                   packed_stuff, arranged_out, mapped_ordered, fmt, bitstream_out>>

NextMapper == MeasurementMapper

SpecMapper == InitMapper /\ [][NextMapper]_vars

(***************************************************************************)
(* Role sets as the specification defines them, read off the scanned sets  *)
(***************************************************************************)
basisChanged == ScanCircuit(ec_circuit).h_qubits
measureReset == ScanCircuit(ec_circuit).mr_qubits
\* every measurement target, measurement-with-reset included
measured == ScanCircuit(ec_circuit).m_qubits \cup ScanCircuit(ec_circuit).mr_qubits
dataRole == measured \ measureReset

MapperReturned == pc = "mapper_done" /\ mapper_out.status = "ok"
ShotIndices == 1..Len(measurements_out)

(***************************************************************************)
(* Claims on measurement_mapper                                            *)
(***************************************************************************)

\* C1: measurement_mapper rejects a (non-empty) batch with the length error
\* exactly when some vector's length differs from
\* rounds * |measureReset| + |data|, and a rejected batch returns no mapping.
C1_LengthCheckAgainstRoleSets ==
    (pc = "mapper_done" /\ measurements_out # <<>>) =>
        /\ (mapper_out.status = "RuntimeError")
             <=> (\E i \in ShotIndices :
                    Len(measurements_out[i])
                        # rounds * Cardinality(measureReset) + Cardinality(dataRole))
        /\ (mapper_out.status = "RuntimeError" => mapper_out.mapped = <<>>)

\* C2: the outcome of measurement_mapper (mapped lists and meta, or the
\* failure) is the same with the logging flag true and with it false.
C2_LoggingDoesNotChangeOutcome ==
    pc = "mapper_done" =>
        mapper_out = measurement_mapper(distance, rounds, ec_circuit,
                                        measurements_out, ~logging)

\* C3: in the labeled sequence of every accepted shot vector v, element
\* j*m+k is (v[j*m+k], k-th smallest qubit of measureReset, ancx if that qubit
\* is in basisChanged else ancz) for every round j and position k < m, and
\* element rounds*m+k is (v[rounds*m+k], k-th smallest qubit of data, data).
C3_PositionalPairingAscending ==
    MapperReturned =>
        \A i \in ShotIndices :
            LET v == measurements_out[i]
                out == mapper_out.mapped[i]
                mrs == SortedInts(measureReset)
                ds == SortedInts(dataRole)
                m == Len(mrs)
            IN  /\ \A j \in 0..(rounds - 1) : \A k \in 1..m :
                     /\ j * m + k <= Len(out)
                     /\ j * m + k <= Len(v)
                     /\ out[j * m + k]
                          = <<v[j * m + k], mrs[k],
                              IF mrs[k] \in basisChanged THEN "ancx" ELSE "ancz">>
                /\ \A k \in 1..Len(ds) :
                     /\ rounds * m + k <= Len(out)
                     /\ rounds * m + k <= Len(v)
                     /\ out[rounds * m + k] = <<v[rounds * m + k], ds[k], "data">>

\* Qubits that carry the data label in the labeled sequence of shot i.
LabelledData(i) ==
    {mapper_out.mapped[i][k][2] :
        k \in {n \in 1..Len(mapper_out.mapped[i]) : mapper_out.mapped[i][n][3] = "data"}}

\* C7: the qubits labelled data are exactly measured - measureReset, so no
\* target of a measurement-with-reset instruction is labelled data.
C7_DataIsMeasuredMinusMeasureReset ==
    MapperReturned =>
        \A i \in ShotIndices :
            /\ LabelledData(i) = dataRole
            /\ LabelledData(i) \cap measureReset = {}

\* C8: on a successful return every labeled sequence has exactly as many
\* tuples as the shot vector has booleans: rounds * |measureReset| ancilla
\* tuples followed by |data| data tuples.
C8_NoTruncationNoPadding ==
    MapperReturned =>
        \A i \in ShotIndices :
            LET out == mapper_out.mapped[i]
                na == rounds * Cardinality(measureReset)
            IN  /\ Len(out) = Len(measurements_out[i])
                /\ Len(out) = na + Cardinality(dataRole)
                /\ \A k \in 1..Len(out) :
                     IF k <= na THEN out[k][3] \in {"ancx", "ancz"}
                                ELSE out[k][3] = "data"

\* Qubits that carry the label lab in the labeled sequence of shot i
Labelled(i, lab) ==
    {mapper_out.mapped[i][k][2] :
        k \in {n \in 1..Len(mapper_out.mapped[i]) : mapper_out.mapped[i][n][3] = lab}}

\* C16: the qubits labelled ancx and the qubits labelled ancz partition
\* measureReset: every measurement-reset qubit gets exactly one of the two
\* labels, the same in every round and every shot, and no other qubit gets
\* an ancilla label.
C16_AncillaLabelsPartitionMeasureReset ==
    MapperReturned =>
        \A i \in ShotIndices :
            /\ Labelled(i, "ancx") \cup Labelled(i, "ancz") = measureReset
            /\ Labelled(i, "ancx") \cap Labelled(i, "ancz") = {}
            /\ \A j \in ShotIndices :
                 /\ Labelled(j, "ancx") = Labelled(i, "ancx")
                 /\ Labelled(j, "ancz") = Labelled(i, "ancz")

\* Top-level instruction n of the circuit has the given name and targets q
Targets(n, name, q) ==
    /\ ec_circuit[n].has_targets_copy
    /\ ec_circuit[n].name = name
    /\ q \in SeqToSet(ec_circuit[n].targets)

\* C19: a qubit is labelled ancx only if an H instruction targeting it
\* occurs earlier in program order than an MR instruction targeting it; a
\* measurement-reset qubit whose only H comes after its last MR is ancz.
C19_AncxNeedsEarlierBasisChange ==
    MapperReturned =>
        \A i \in ShotIndices : \A q \in Labelled(i, "ancx") :
            \E a \in 1..Len(ec_circuit) : \E b \in (a + 1)..Len(ec_circuit) :
                Targets(a, <<"H">>, q) /\ Targets(b, <<"M", "R">>, q)

\* Values of the tuples of shot i that carry a label of the set labs, in order
LabelledValues(i, labs) ==
    LET sel == SelectSeq(mapper_out.mapped[i], LAMBDA t : t[3] \in labs)
    IN  [k \in 1..Len(sel) |-> sel[k][1]]

\* C20: the values labelled data are those at the positions from
\* rounds * |measureReset| on of the shot vector, and no value of the vector
\* is labelled both as ancilla and as data, also when chunk_list returns no
\* remainder chunk.
C20_DataFromTrailingChunkOnly ==
    MapperReturned =>
        \A i \in ShotIndices :
            LET v == measurements_out[i]
                first == rounds * Cardinality(measureReset)
                anc == LabelledValues(i, {"ancx", "ancz"})
                data == LabelledValues(i, {"data"})
            IN  /\ first + Len(data) <= Len(v)
                /\ Len(anc) + Len(data) <= Len(v)
                /\ \A k \in 1..Len(data) : data[k] = v[first + k]

\* Positions of the circuit's entries that are repeat blocks
RepeatEntries == {n \in 1..Len(ec_circuit) : ~ec_circuit[n].has_targets_copy}

\* Qubits targeted by the top-level instructions whose name satisfies Sel
TopLevelQubits(Sel(_)) ==
    UNION {SeqToSet(ec_circuit[n].targets) :
              n \in {k \in (1..Len(ec_circuit)) \ RepeatEntries : Sel(ec_circuit[k].name)}}

IsH(name) == name = <<"H">>
IsMR(name) == name = <<"M", "R">>
IsOtherM(name) == name # <<"M", "R">> /\ Len(name) >= 1 /\ name[1] = "M"

\* Qubits targeted by an instruction nested in a repeat block
NestedQubits ==
    UNION {UNION {SeqToSet(ec_circuit[n].body[k].targets) : k \in 1..Len(ec_circuit[n].body)} :
              n \in RepeatEntries}

\* C22: role classification uses the top-level instructions only: a repeat
\* block is skipped without descending into its body, so the H, MR and M*
\* instructions nested in it add no qubit to basisChanged, measureReset or
\* measured, and no such qubit is labelled.
C22_RepeatBlocksSkipped ==
    MapperReturned =>
        /\ mapper_out.meta.h_qubits = SortedInts(TopLevelQubits(IsH))
        /\ mapper_out.meta.mr_qubits = SortedInts(TopLevelQubits(IsMR))
        /\ mapper_out.meta.m_qubits = SortedInts(TopLevelQubits(IsOtherM))
        /\ \A i \in ShotIndices : \A k \in 1..Len(mapper_out.mapped[i]) :
             mapper_out.mapped[i][k][2]
                \in TopLevelQubits(IsMR) \cup TopLevelQubits(IsOtherM)

\* A circuit with a repeat block whose body holds H, MR and M instructions
\* on qubits no top-level instruction targets, beside top-level H and MR
C22_Witness ==
    /\ MapperReturned
    /\ measurements_out # <<>>
    /\ \E n \in RepeatEntries :
          /\ \E k \in 1..Len(ec_circuit[n].body) : IsH(ec_circuit[n].body[k].name)
          /\ \E k \in 1..Len(ec_circuit[n].body) : IsMR(ec_circuit[n].body[k].name)
          /\ \E k \in 1..Len(ec_circuit[n].body) : IsOtherM(ec_circuit[n].body[k].name)
    /\ NestedQubits # {}
    /\ NestedQubits \cap (TopLevelQubits(IsH) \cup TopLevelQubits(IsMR)
                              \cup TopLevelQubits(IsOtherM)) = {}
    /\ TopLevelQubits(IsH) \cap TopLevelQubits(IsMR) # {}

(***************************************************************************)
(* Inputs of arranging_good_stuff                                          *)
(***************************************************************************)
Packed(q, v, t, c) == [qubit |-> q, value |-> v, type |-> t, coords |-> c]

\* Packed entries of the three roles.  Qubits 2 and 11 are given the same
\* coordinates (a synthetic duplicate-coordinate fixture); qubits 1 and 3
\* share x and differ in y.
EntryPool ==
    { Packed(2, TRUE, "ancx", <<2, 0>>),
      Packed(11, FALSE, "ancx", <<2, 0>>),
      Packed(16, TRUE, "ancx", <<0, 4>>),
      Packed(9, FALSE, "ancz", <<2, 2>>),
      Packed(1, TRUE, "data", <<1, 1>>),
      Packed(3, FALSE, "data", <<1, 0>>) }

PackedShots == UNION {[1..n -> EntryPool] : n \in 1..MaxEntries}

\* A batch of n shots: shot i is the first shot without its first i-1 entries,
\* so the shots of a batch differ in their role counts.
PackedBatch(first, n) == [i \in 1..n |-> SubSeq(first, i, Len(first))]

PackedBatches == {PackedBatch(first, n) : first \in PackedShots, n \in 0..MaxArrShots}

NoArranged == [status |-> "none", result |-> <<>>]
NoBitstream == [status |-> "none", char |-> "", bitstream |-> <<>>]

(***************************************************************************)
(* Specification of arranging_good_stuff                                   *)
(***************************************************************************)
InitArrange ==
    /\ pc = "arrange_call"
    /\ MapperIdle
    /\ PackIdle
    /\ rounds \in Rounds
    /\ packed_stuff \in PackedBatches
    /\ arranged_out = NoArranged
    /\ mapped_ordered = <<>>
    /\ fmt = <<>>
    /\ bitstream_out = NoBitstream

\* arranging_good_stuff(packed_stuff=packed_stuff, rounds=rounds)
ArrangingGoodStuff ==
    /\ pc = "arrange_call"
    /\ arranged_out' = arranging_good_stuff(packed_stuff, rounds)
    /\ pc' = "arrange_done"
    /\ UNCHANGED <<helper_packed_out, distance, rounds, ec_circuit, logging, measurements_out, mapper_out,
                   mapped_measurements, coordinates, packed_out,
                   packed_stuff, mapped_ordered, fmt, bitstream_out>>

NextArrange == ArrangingGoodStuff

SpecArrange == InitArrange /\ [][NextArrange]_vars

(***************************************************************************)
(* Claims on arranging_good_stuff                                          *)
(***************************************************************************)
AncRoles == {"ancx", "ancz"}

\* Number of entries of role t in shot i of the input
RoleCount(i, t) == Len(FilterType(packed_stuff[i], t))

\* a and b hold the same entries the same number of times
SameEntries(a, b) ==
    /\ Len(a) = Len(b)
    /\ \A e \in SeqToSet(a) \cup SeqToSet(b) :
         Cardinality({k \in 1..Len(a) : a[k] = e})
            = Cardinality({k \in 1..Len(b) : b[k] = e})

EvenShot(i) == \A t \in AncRoles : RoleCount(i, t) % rounds = 0

\* C5: when the ancx and ancz counts of every shot are multiples of rounds
\* (zero included), each ancilla role of each shot gets exactly `rounds`
\* RoundRecords numbered 1..rounds, and round j holds exactly the entries at
\* positions (j-1)*perRound .. j*perRound-1 of the role's list.
C5_RoundsRecordsPerRole ==
    (pc = "arrange_done" /\ \A i \in 1..Len(packed_stuff) : EvenShot(i)) =>
        /\ arranged_out.status = "ok"
        /\ Len(arranged_out.result) = Len(packed_stuff)
        /\ \A i \in 1..Len(packed_stuff) : \A t \in AncRoles :
             LET recs == arranged_out.result[i].shot[t]
                 role_list == FilterType(packed_stuff[i], t)
                 perRound == Len(role_list) \div rounds
             IN  /\ Len(recs) = rounds
                 /\ \A j \in 1..Len(recs) :
                      /\ recs[j].round = j
                      /\ SameEntries(recs[j].ord_qubits,
                                     SubSeq(role_list, (j - 1) * perRound + 1,
                                            j * perRound))

\* C6: arranging_good_stuff fails with an error and returns no
\* ArrangedResult whenever the ancx count or the ancz count of some shot is
\* not an exact multiple of rounds.
C6_UnevenRoundDivisionFails ==
    (pc = "arrange_done" /\ \E i \in 1..Len(packed_stuff) : ~EvenShot(i)) =>
        /\ arranged_out.status # "ok"
        /\ arranged_out.result = <<>>

ArrangeReturned == pc = "arrange_done" /\ arranged_out.status = "ok"

Reverse(lst) == [k \in 1..Len(lst) |-> lst[Len(lst) + 1 - k]]

\* The records of shot i: <<"data", 1>> and <<t, j>> for round j of role t
RecordIds(i) ==
    {<<"data", 1>>}
        \cup UNION {{<<t, j>> : j \in 1..Len(arranged_out.result[i].shot[t])} : t \in AncRoles}

\* ord_qubits of a record of shot i
RecordQubits(i, id) ==
    IF id[1] = "data" THEN arranged_out.result[i].shot.data.ord_qubits
    ELSE arranged_out.result[i].shot[id[1]][id[2]].ord_qubits

\* The chunk of the input a record is built from: the whole data list, or
\* the id[2]-th slice of perRound entries of the role's list
RecordChunk(i, id) ==
    LET role_list == FilterType(packed_stuff[i], id[1])
        perRound == Len(role_list) \div rounds
    IN  IF id[1] = "data" THEN role_list
        ELSE SubSeq(role_list, (id[2] - 1) * perRound + 1,
                    Min2(id[2] * perRound, Len(role_list)))

\* lst is in non-decreasing (x, y) order: x ascending, y ascending for equal x
NonDecreasingXY(lst) ==
    \A p \in 1..Len(lst) : \A q \in (p + 1)..Len(lst) :
        \/ lst[p].coords[1] < lst[q].coords[1]
        \/ lst[p].coords[1] = lst[q].coords[1] /\ lst[p].coords[2] <= lst[q].coords[2]

\* C11: in every RoundRecord (each ancilla round and the data record),
\* ord_qubits is a permutation of the entries of its chunk in non-decreasing
\* (x, y) order, whatever the positional order of the chunk.
C11_RecordsSortedByXY ==
    ArrangeReturned =>
        \A i \in 1..Len(packed_stuff) : \A id \in RecordIds(i) :
            /\ SameEntries(RecordQubits(i, id), RecordChunk(i, id))
            /\ NonDecreasingXY(RecordQubits(i, id))

\* A shot whose data chunk is out of order in y (equal x) and whose ancx
\* chunk is out of order in x
C11_Witness ==
    /\ ArrangeReturned
    /\ \E i \in 1..Len(packed_stuff) :
          /\ ~NonDecreasingXY(RecordChunk(i, <<"data", 1>>))
          /\ \E d \in 1..Len(RecordChunk(i, <<"data", 1>>)) :
                \E e \in 1..Len(RecordChunk(i, <<"data", 1>>)) :
                   /\ d < e
                   /\ RecordChunk(i, <<"data", 1>>)[d].coords[1]
                        = RecordChunk(i, <<"data", 1>>)[e].coords[1]
                   /\ RecordChunk(i, <<"data", 1>>)[d].coords[2]
                        > RecordChunk(i, <<"data", 1>>)[e].coords[2]
          /\ \E j \in 1..Len(arranged_out.result[i].shot.ancx) :
                \E d \in 1..Len(RecordChunk(i, <<"ancx", j>>)) :
                   \E e \in 1..Len(RecordChunk(i, <<"ancx", j>>)) :
                      /\ d < e
                      /\ RecordChunk(i, <<"ancx", j>>)[d].coords[1]
                           > RecordChunk(i, <<"ancx", j>>)[e].coords[1]

\* C12: entries of one chunk with identical (x, y) appear in ord_qubits in
\* ascending qubit index, so that the same entries given in another
\* positional order (the chunk reversed) yield the same ord_qubits.
C12_TieBreakByQubitIndex ==
    ArrangeReturned =>
        \A i \in 1..Len(packed_stuff) : \A id \in RecordIds(i) :
            LET out == RecordQubits(i, id)
            IN  /\ \A p \in 1..Len(out) : \A q \in (p + 1)..Len(out) :
                     out[p].coords = out[q].coords => out[p].qubit <= out[q].qubit
                /\ out = SortedByCoords(Reverse(RecordChunk(i, id)))

(***************************************************************************)
(* Inputs of bitstreamer                                                   *)
(***************************************************************************)
\* Format characters: the three valid ones and two invalid ones
FmtChars == {"x", "z", "d", "y", "a"}
\* fmt: str = "zxd"
DefaultFmt == <<"z", "x", "d">>
Formats == {DefaultFmt} \cup UNION {[1..n -> FmtChars] : n \in 0..MaxFmtLen}

\* Value of entry p of round r of section sec (1 ancx, 2 ancz, 3 data) of shot i
BsValue(i, sec, r, p) == ((3 * i + 5 * sec + 2 * r + p) % 7) \in {0, 2, 3}

BsEntries(i, sec, t, r, n) ==
    [p \in 1..n |-> Packed(10 * sec + p, BsValue(i, sec, r, p), t, <<p, sec>>)]

\* Shot i with nr rounds of k entries per ancilla role and k - 1 data entries
BsFullShot(i, nr, k) ==
    [ancx |-> [r \in 1..nr |-> [round |-> r, ord_qubits |-> BsEntries(i, 1, "ancx", r, k)]],
     ancz |-> [r \in 1..nr |-> [round |-> r, ord_qubits |-> BsEntries(i, 2, "ancz", r, k)]],
     data |-> [ord_qubits |-> BsEntries(i, 3, "data", 1, k - 1)]]

\* The shots with an odd index lack the section `missing` (if it names one)
BsShot(i, nr, k, missing) ==
    LET full == BsFullShot(i, nr, k)
    IN  IF i % 2 = 1 /\ missing \in DOMAIN full
        THEN [key \in (DOMAIN full) \ {missing} |-> full[key]]
        ELSE full

\* The dict with keys "shot 1" .. "shot n", inserted in ascending or in
\* descending order of the shot index
BsDict(n, nr, k, missing, ascending) ==
    [j \in 1..n |->
        LET i == IF ascending THEN j ELSE n + 1 - j
        IN  [key |-> ShotKey(i), shot |-> BsShot(i, nr, k, missing)]]

\* Numbers of shots: none, few, and enough for keys with two digits
ShotCounts == {0, 1, 2, MaxBsShots - 1, MaxBsShots}

BsDicts ==
    {BsDict(n, nr, k, missing, ascending) :
        n \in ShotCounts, nr \in 1..MaxBsRounds, k \in 1..MaxBsQubits,
        missing \in {"none", "ancx", "ancz", "data"},
        ascending \in BOOLEAN}

(***************************************************************************)
(* Specification of bitstreamer                                            *)
(***************************************************************************)
InitBitstream ==
    /\ pc = "bitstream_call"
    /\ MapperIdle
    /\ PackIdle
    /\ rounds = 0
    /\ ArrangeIdle
    /\ mapped_ordered \in BsDicts
    /\ fmt \in Formats
    /\ bitstream_out = NoBitstream

\* bitstreamer(mapped_ordered, fmt=fmt)
Bitstreamer ==
    /\ pc = "bitstream_call"
    /\ bitstream_out' = bitstreamer(mapped_ordered, fmt)
    /\ pc' = "bitstream_done"
    /\ UNCHANGED <<helper_packed_out, distance, rounds, ec_circuit, logging, measurements_out, mapper_out,
                   mapped_measurements, coordinates, packed_out,
                   packed_stuff, arranged_out, mapped_ordered, fmt>>

NextBitstream == Bitstreamer

SpecBitstream == InitBitstream /\ [][NextBitstream]_vars

(***************************************************************************)
(* Claims on bitstreamer                                                   *)
(***************************************************************************)
BitstreamReturned == pc = "bitstream_done" /\ bitstream_out.status = "ok"

RECURSIVE StrToInt(_)
\* int(s) for a string of decimal digits
StrToInt(str) ==
    IF str = <<>> THEN 0
    ELSE 10 * StrToInt(SubSeq(str, 1, Len(str) - 1)) + (CharCode(str[Len(str)]) - 48)

\* The shot index n of the key "shot n"
KeyIndex(key) == StrToInt(SubSeq(key, 6, Len(key)))

\* The shots of mapped_ordered by ascending numeric shot index
NumericOrder ==
    LET idx == SortedInts({KeyIndex(k) : k \in DictKeys(mapped_ordered)})
    IN  [n \in 1..Len(idx) |-> DictGet(mapped_ordered, ShotKey(idx[n]))]

\* The shots of mapped_ordered in the order of the sorted key strings
KeyOrder ==
    LET names == SortedStrs(DictKeys(mapped_ordered))
    IN  [n \in 1..Len(names) |-> DictGet(mapped_ordered, names[n])]

\* The section a format character names
SectionOf(c) == IF c = "x" THEN "ancx" ELSE IF c = "z" THEN "ancz" ELSE "data"

\* The bit sources of one shot: <<f, r, p>> is entry p of round r of the
\* section named by format position f (r = 1 for the data section).
BitSources(shot) ==
    UNION {
        LET key == SectionOf(fmt[f])
        IN  IF key \notin DOMAIN shot THEN {}
            ELSE IF key = "data"
                 THEN {<<f, 1, p>> : p \in 1..Len(shot.data.ord_qubits)}
                 ELSE UNION {{<<f, r, p>> : p \in 1..Len(shot[key][r].ord_qubits)} :
                                r \in 1..Len(shot[key])}
        : f \in 1..Len(fmt)}

SourceValue(shot, src) ==
    LET key == SectionOf(fmt[src[1]])
    IN  IF key = "data" THEN shot.data.ord_qubits[src[3]].value
        ELSE shot[key][src[2]].ord_qubits[src[3]].value

\* format position first, then round, then position in ord_qubits
SourceBefore(a, b) ==
    \/ a[1] < b[1]
    \/ a[1] = b[1] /\ a[2] < b[2]
    \/ a[1] = b[1] /\ a[2] = b[2] /\ a[3] < b[3]

RECURSIVE BlockStart(_, _)
\* Number of bits of the shots before shot n of the order
BlockStart(order, n) ==
    IF n <= 1 THEN 0
    ELSE BlockStart(order, n - 1) + Cardinality(BitSources(order[n - 1]))

\* bitstream_out.bitstream is the shots' blocks in the given shot order, each
\* block holding the bit of every source of the shot at the source's rank.
StreamInOrder(order) ==
    LET bits == bitstream_out.bitstream
    IN  /\ Len(bits) = BlockStart(order, Len(order) + 1)
        /\ \A n \in 1..Len(order) : \A src \in BitSources(order[n]) :
             LET rank == Cardinality({o \in BitSources(order[n]) : SourceBefore(o, src)}) + 1
             IN  bits[BlockStart(order, n) + rank]
                    = (IF SourceValue(order[n], src) THEN "1" ELSE "0")

\* C4: bitstreamer emits the shots in ascending numeric shot index
\* (shot 1, shot 2, ..., shot 9, shot 10, shot 11), whatever their number and
\* the insertion order of the dict.
C4_ShotsInNumericOrder ==
    BitstreamReturned => StreamInOrder(NumericOrder)

InvalidPositions == {i \in 1..Len(fmt) : fmt[i] \notin {"x", "z", "d"}}

\* C9: if any character of the format is outside {x, z, d}, bitstreamer
\* fails with an error naming the first such character and returns no
\* bitstream, wherever the character is and whatever the dict holds.
C9_FormatValidatedFirst ==
    (pc = "bitstream_done" /\ InvalidPositions # {}) =>
        /\ bitstream_out.status = "ValueError"
        /\ bitstream_out.char = fmt[SetMin(InvalidPositions)]
        /\ bitstream_out.bitstream = <<>>

\* An invalid character behind a valid one, and a dict that holds shots with
\* bits to emit
C9_Witness ==
    /\ pc = "bitstream_done"
    /\ bitstream_out.status = "ValueError"
    /\ Len(fmt) >= 2
    /\ fmt[1] \in {"x", "z", "d"}
    /\ InvalidPositions # {}
    /\ Len(mapped_ordered) >= 2

\* C10: for a valid format the bitstream is the concatenation, shot by shot
\* (in the order of the sorted keys), of the sections named by the format
\* characters in the given order, repeats included; an ancilla section is
\* all its RoundRecords in round order, each in ord_qubits order, the data
\* section its ord_qubits in order; '1' for true and '0' for false, and
\* nothing else is emitted.
C10_BitstreamLayout ==
    (pc = "bitstream_done" /\ InvalidPositions = {}) =>
        /\ bitstream_out.status = "ok"
        /\ StreamInOrder(KeyOrder)
        /\ \A n \in 1..Len(bitstream_out.bitstream) :
             bitstream_out.bitstream[n] \in {"0", "1"}

\* Several shots with all sections and several rounds, a format that repeats
\* a section, and a bitstream that holds both bit values
C10_Witness ==
    /\ BitstreamReturned
    /\ Len(mapped_ordered) >= 2
    /\ Len(fmt) >= 2
    /\ fmt[1] = fmt[2]
    /\ \A i \in 1..Len(mapped_ordered) : DOMAIN mapped_ordered[i].shot = {"ancx", "ancz", "data"}
    /\ Len(mapped_ordered[1].shot.ancx) >= 2
    /\ {"0", "1"} \subseteq SeqToSet(bitstream_out.bitstream)

(***************************************************************************)
(* Inputs of packing_good_stuff                                            *)
(***************************************************************************)
\* Labeled tuples (value, qubit, type) as measurement_mapper builds them
LabelPool ==
    { <<TRUE, 2, "ancx">>, <<FALSE, 2, "ancx">>, <<FALSE, 9, "ancz">>,
      <<TRUE, 1, "data">>, <<FALSE, 30, "data">> }

LabelledShots == UNION {[1..n -> LabelPool] : n \in 0..MaxLabels}

\* A batch of n shots: the last shot is `full`, shot i is `full` without its
\* first n - i tuples, so the shots differ in length and content.
LabelledBatch(full, n) ==
    [i \in 1..n |-> SubSeq(full, Min2(n - i, Len(full)) + 1, Len(full))]

LabelledBatches ==
    {LabelledBatch(full, n) : full \in LabelledShots, n \in 0..MaxPackShots}

\* get_final_qubit_coordinates(): a dict from qubit index to coordinates
AllCoords == [q \in {1, 2, 9, 30} |-> <<q % 4, q \div 4>>]

\* The dict, and dicts that lack the entry of one qubit or of every qubit
CoordMaps ==
    {[q \in D |-> AllCoords[q]] :
        D \in {DOMAIN AllCoords, (DOMAIN AllCoords) \ {30}, (DOMAIN AllCoords) \ {2}, {}}}

(***************************************************************************)
(* Specification of packing_good_stuff                                     *)
(***************************************************************************)
InitPack ==
    /\ pc = "pack_call"
    /\ MapperIdle
    /\ rounds = 0
    /\ mapped_measurements \in LabelledBatches
    /\ coordinates \in CoordMaps
    /\ packed_out = NoPacked
    /\ helper_packed_out = NoPacked
    /\ ArrangeIdle
    /\ BitstreamIdle

\* packing_good_stuff(mapped_measurements, qubit_coords)
PackingGoodStuff ==
    /\ pc = "pack_call"
    /\ packed_out' = packing_good_stuff(mapped_measurements, coordinates)
    /\ pc' = "pack_done"
    /\ UNCHANGED <<helper_packed_out, distance, rounds, ec_circuit, logging, measurements_out, mapper_out,
                   mapped_measurements, coordinates,
                   packed_stuff, arranged_out, mapped_ordered, fmt, bitstream_out>>

NextPack == PackingGoodStuff

SpecPack == InitPack /\ [][NextPack]_vars

(***************************************************************************)
(* Claims on packing_good_stuff                                            *)
(***************************************************************************)
\* Qubits some labeled tuple of the batch names
NamedQubits ==
    UNION {{mapped_measurements[i][k][2] : k \in 1..Len(mapped_measurements[i])} :
              i \in 1..Len(mapped_measurements)}

\* C14: packing_good_stuff returns one list per input shot, in shot order;
\* element k of list i carries the value, qubit and type of labeled tuple k
\* of shot i and coords = coordinates[qubit]; lengths and order are kept.
C14_PackingPerElement ==
    (pc = "pack_done" /\ NamedQubits \subseteq DOMAIN coordinates) =>
        /\ packed_out.status = "ok"
        /\ Len(packed_out.packed) = Len(mapped_measurements)
        /\ \A i \in 1..Len(mapped_measurements) :
             /\ Len(packed_out.packed[i]) = Len(mapped_measurements[i])
             /\ \A k \in 1..Len(mapped_measurements[i]) :
                  /\ packed_out.packed[i][k].value = mapped_measurements[i][k][1]
                  /\ packed_out.packed[i][k].qubit = mapped_measurements[i][k][2]
                  /\ packed_out.packed[i][k].type = mapped_measurements[i][k][3]
                  /\ packed_out.packed[i][k].coords
                        = coordinates[mapped_measurements[i][k][2]]

\* Two shots of different lengths, the longer one holding different tuples
C14_Witness ==
    /\ pc = "pack_done"
    /\ packed_out.status = "ok"
    /\ Len(mapped_measurements) >= 2
    /\ Len(mapped_measurements[1]) >= 1
    /\ Len(mapped_measurements[2]) >= 3
    /\ Cardinality(SeqToSet(mapped_measurements[2])) >= 3

\* C15: packing_good_stuff fails, and returns no packed output for the
\* batch, whenever a labeled tuple of any shot names a qubit without an entry
\* in the coordinate map; no default coordinate, no skipped tuple.
C15_MissingCoordinateFails ==
    (pc = "pack_done" /\ ~(NamedQubits \subseteq DOMAIN coordinates)) =>
        /\ packed_out.status = "KeyError"
        /\ packed_out.packed = <<>>

\* The qubit without coordinates is named by the last shot only, behind
\* tuples and a shot that have coordinates
C15_Witness ==
    /\ pc = "pack_done"
    /\ packed_out.status = "KeyError"
    /\ Len(mapped_measurements) >= 2
    /\ Len(mapped_measurements[1]) >= 1
    /\ \A k \in 1..Len(mapped_measurements[1]) :
          mapped_measurements[1][k][2] \in DOMAIN coordinates
    /\ mapped_measurements[2][1][2] \notin DOMAIN coordinates
    /\ coordinates # <<>>

(***************************************************************************)
(* Specification of the pipeline of main.py:                               *)
(* measurement_mapper -> packing_good_stuff -> arranging_good_stuff        *)
(***************************************************************************)
\* sim.get_q_coords(): coordinates of every qubit of the circuit
QubitCoords == [q \in 0..25 |-> <<q % 5, q \div 5>>]

InitMain ==
    /\ pc = "main_map"
    /\ distance \in Distances
    /\ rounds \in Rounds
    /\ ec_circuit \in Circuits
    /\ logging \in BOOLEAN
    /\ measurements_out \in Batches(distance, rounds, ec_circuit)
    /\ mapper_out = NoMapperOut
    /\ mapped_measurements = <<>>
    /\ coordinates = QubitCoords
    /\ packed_out = NoPacked
    /\ helper_packed_out = NoPacked
    /\ ArrangeIdle
    /\ BitstreamIdle

\* mapped_measurements_dict = sim.measurement_mapper(sampling_serializable, logging=mapping_log)
\* mapped_measurements = mapped_measurements_dict["mapped"]
MainMap ==
    /\ pc = "main_map"
    /\ mapper_out' = measurement_mapper(distance, rounds, ec_circuit,
                                        measurements_out, logging)
    /\ IF mapper_out'.status = "ok"
       THEN mapped_measurements' = mapper_out'.mapped /\ pc' = "main_pack"
       ELSE mapped_measurements' = mapped_measurements /\ pc' = "main_failed"
    /\ UNCHANGED <<helper_packed_out, distance, rounds, ec_circuit, logging, measurements_out,
                   coordinates, packed_out,
                   packed_stuff, arranged_out, mapped_ordered, fmt, bitstream_out>>

\* packed_good_stuff = packing_good_stuff(mapped_measurements, qubit_coords)
MainPack ==
    /\ pc = "main_pack"
    /\ packed_out' = packing_good_stuff(mapped_measurements, coordinates)
    /\ IF packed_out'.status = "ok"
       THEN packed_stuff' = packed_out'.packed /\ pc' = "main_arrange"
       ELSE packed_stuff' = packed_stuff /\ pc' = "main_failed"
    /\ UNCHANGED <<helper_packed_out, distance, rounds, ec_circuit, logging, measurements_out, mapper_out,
                   mapped_measurements, coordinates,
                   arranged_out, mapped_ordered, fmt, bitstream_out>>

\* big_output = arranging_good_stuff(packed_stuff=packed_good_stuff, rounds=rounds)
MainArrange ==
    /\ pc = "main_arrange"
    /\ arranged_out' = arranging_good_stuff(packed_stuff, rounds)
    /\ pc' = IF arranged_out'.status = "ok" THEN "main_done" ELSE "main_failed"
    /\ UNCHANGED <<helper_packed_out, distance, rounds, ec_circuit, logging, measurements_out, mapper_out,
                   mapped_measurements, coordinates, packed_out,
                   packed_stuff, mapped_ordered, fmt, bitstream_out>>

NextMain == MainMap \/ MainPack \/ MainArrange

SpecMain == InitMain /\ [][NextMain]_vars

(***************************************************************************)
(* Claims on the pipeline                                                  *)
(***************************************************************************)
\* The three stages applied to a batch of shot vectors
MappedOf(batch) == measurement_mapper(distance, rounds, ec_circuit, batch, logging)
PackedOf(batch) == packing_good_stuff(MappedOf(batch).mapped, coordinates)
ArrangedOf(batch) == arranging_good_stuff(PackedOf(batch).packed, rounds)

\* The arranger has run on an accepted batch
ArrangerRan == pc \in {"main_done", "main_failed"} /\ arranged_out.status # "none"

\* C13: for an accepted batch, the labeled, packed and arranged record of
\* shot i is what the stages give for shot i processed in a batch of its
\* own, and what they give for it when the batch is processed in the
\* opposite shot order: no stage carries state from one shot to another.
C13_ShotsIndependent ==
    ArrangerRan =>
        \A i \in ShotIndices :
            LET alone == <<measurements_out[i]>>
                back == Reverse(measurements_out)
                n == Len(measurements_out)
            IN  /\ MappedOf(alone).mapped = <<mapper_out.mapped[i]>>
                /\ PackedOf(alone).packed = <<packed_out.packed[i]>>
                /\ ArrangedOf(alone).status = arranged_out.status
                /\ ArrangedOf(back).status = arranged_out.status
                /\ arranged_out.status = "ok" =>
                     /\ ArrangedOf(alone).result[1].shot = arranged_out.result[i].shot
                     /\ ArrangedOf(back).result[n + 1 - i].shot
                          = arranged_out.result[i].shot

\* Two different shot vectors, two rounds, records of all three roles
C13_Witness ==
    /\ pc = "main_done"
    /\ rounds = 2
    /\ Len(measurements_out) >= 2
    /\ measurements_out[1] # measurements_out[2]
    /\ arranged_out.result[1].shot # arranged_out.result[2].shot
    /\ \A i \in ShotIndices :
          /\ Len(arranged_out.result[i].shot.ancx) = 2
          /\ Len(arranged_out.result[i].shot.ancz) = 2
          /\ Len(arranged_out.result[i].shot.ancx[2].ord_qubits) >= 2
          /\ Len(arranged_out.result[i].shot.data.ord_qubits) >= 2

\* C17: with the format "zxd", cutting the bitstream into per-shot blocks
\* taken in ascending shot index, and each block into the ancz rounds, the
\* ancx rounds and the data by the known section sizes, gives back the
\* value of every qubit entry of that shot, in the order of the entries.
C17_RoundTripZxd ==
    (BitstreamReturned /\ fmt = DefaultFmt) => StreamInOrder(NumericOrder)

(***************************************************************************)
(* Specification of the two packing_good_stuff functions on one input      *)
(***************************************************************************)
InitPackers ==
    /\ pc = "packers_call"
    /\ MapperIdle
    /\ rounds = 0
    /\ mapped_measurements \in LabelledBatches
    /\ coordinates \in CoordMaps
    /\ packed_out = NoPacked
    /\ helper_packed_out = NoPacked
    /\ ArrangeIdle
    /\ BitstreamIdle

\* src.good_stuff.packing_good_stuff(mapped_measurements, coordinates)
GoodStuffPacking ==
    /\ pc = "packers_call"
    /\ packed_out' = packing_good_stuff(mapped_measurements, coordinates)
    /\ pc' = "packers_helper"
    /\ UNCHANGED <<helper_packed_out, distance, rounds, ec_circuit, logging,
                   measurements_out, mapper_out, mapped_measurements, coordinates,
                   packed_stuff, arranged_out, mapped_ordered, fmt, bitstream_out>>

\* src.helper.packing_good_stuff(mapped_measurements, coordinates)
HelperPacking ==
    /\ pc = "packers_helper"
    /\ helper_packed_out' = helper_packing_good_stuff(mapped_measurements, coordinates)
    /\ pc' = "packers_done"
    /\ UNCHANGED <<packed_out, distance, rounds, ec_circuit, logging,
                   measurements_out, mapper_out, mapped_measurements, coordinates,
                   packed_stuff, arranged_out, mapped_ordered, fmt, bitstream_out>>

NextPackers == GoodStuffPacking \/ HelperPacking

SpecPackers == InitPackers /\ [][NextPackers]_vars

\* C21: packing_good_stuff of src/helper.py and packing_good_stuff of
\* src/good_stuff.py return equal output (or both fail) for every batch of
\* labeled shots and every coordinate map, one shot or several.
C21_PackersAgree ==
    pc = "packers_done" => helper_packed_out = packed_out

\* Format positions that name a section the shot lacks
MissingAt(shot) == {f \in 1..Len(fmt) : SectionOf(fmt[f]) \notin DOMAIN shot}

\* C23: with a valid format bitstreamer never fails because a shot lacks a
\* section the format names: such a shot contributes zero bits for that
\* format character, and its other sections and all later shots are still
\* emitted in format order.  (A shot has no bit source at a format position
\* that names a section it lacks.)
C23_MissingSectionSkipped ==
    (/\ pc = "bitstream_done"
     /\ InvalidPositions = {}
     /\ \E n \in 1..Len(mapped_ordered) : MissingAt(mapped_ordered[n].shot) # {}) =>
        /\ bitstream_out.status = "ok"
        /\ StreamInOrder(KeyOrder)

\* The first emitted shot lacks the section the format names first and has
\* bits for the section it names next; a later shot has bits too
C23_Witness ==
    /\ BitstreamReturned
    /\ Len(fmt) >= 2
    /\ Len(KeyOrder) >= 2
    /\ 1 \in MissingAt(KeyOrder[1])
    /\ \E src \in BitSources(KeyOrder[1]) : src[1] = 2
    /\ BitSources(KeyOrder[2]) # {}
    /\ MissingAt(KeyOrder[2]) = {}

====
